---- MODULE Spec2Model ----
\* Model of pkg/minikube/kubeconfig/settings.go: the Settings record, the
\* projection PopulateFromSettings and the locked read-merge-write cycle Update,
\* run by NumCalls concurrent callers against kubeconfig files on one machine.
EXTENDS Integers, Sequences, FiniteSets, TLC

\* ---------------------------------------------------------------- bounds

\* Number of Update calls (one caller each) that may run concurrently.
NumCalls == 2

\* Number of failures of the environment in one run: a certificate file that
\* cannot be read, a write that fails, a lock acquisition that times out.
MaxFaults == 1

Calls == 1..NumCalls

\* ---------------------------------------------------------------- values

\* Target kubeconfig file paths a caller may pass to SetPath.
KubeConfig == "/home/u/.kube/config"
OtherConfig == "/tmp/kubeconfig"
Paths == {KubeConfig, OtherConfig}

\* The value of Settings.kubeConfigFile before the first Store.
NoPath == "<unset>"

\* Values of Settings.ClusterName the callers use. Call c picks among the first
\* c of them: every pattern of equal and distinct names among the calls occurs.
AllNames == <<"minikube", "dev", "staging", "test", "prod">>
ClusterNames(c) == {AllNames[i] : i \in 1..(IF c < Len(AllNames) THEN c ELSE Len(AllNames))}

\* Zero value of a Go string and of a Go byte slice.
EmptyString == ""
NoBytes == <<>>

\* A Go map with no entries.
EmptyMap == [k \in {} |-> k]

\* Mutant: the assignment replaces the map by one holding only the new entry.
MapPut_replacing(m, k, v) == [x \in {k} |-> v]

\* m[k] = v of a Go map: adds or replaces the entry under k, and nothing else.
MapPut(m, k, v) == [x \in (DOMAIN m) \cup {k} |-> IF x = k THEN v ELSE m[x]]

\* The certificate files on the machine, by path, with their bytes.
CertFiles ==
    ("/certs/1/ca.crt" :> <<11>>) @@ ("/certs/1/client.crt" :> <<12>>) @@
    ("/certs/1/client.key" :> <<13>>) @@ ("/certs/2/ca.crt" :> <<21>>) @@
    ("/certs/2/client.crt" :> <<22>>) @@ ("/certs/2/client.key" :> <<23>>)

\* ioutil.ReadFile(path): the bytes of the file, or an error when the file is
\* not readable at the time of the call.
ReadFile(path, readable) ==
    IF path \in readable
    THEN [err |-> FALSE, data |-> CertFiles[path]]
    ELSE [err |-> TRUE, data |-> NoBytes]

\* ---------------------------------------------------------------- Settings

\* The Settings a caller c builds for cluster name, KeepContext and EmbedCerts
\* flags; the address, namespace and certificate paths are the caller's own.
NewSettings(c, name, keep, embed) ==
    [ClusterName          |-> name,
     Namespace            |-> IF c % 2 = 1 THEN "default" ELSE "kube-system",
     ClusterServerAddress |-> IF c % 2 = 1 THEN "https://192.168.49.2:8443"
                                           ELSE "https://192.168.58.2:8443",
     ClientCertificate    |-> IF c % 2 = 1 THEN "/certs/1/client.crt"
                                           ELSE "/certs/2/client.crt",
     CertificateAuthority |-> IF c % 2 = 1 THEN "/certs/1/ca.crt"
                                           ELSE "/certs/2/ca.crt",
     ClientKey            |-> IF c % 2 = 1 THEN "/certs/1/client.key"
                                           ELSE "/certs/2/client.key",
     KeepContext          |-> keep,
     EmbedCerts           |-> embed,
     kubeConfigFile       |-> NoPath]

\* Settings.SetPath: stores the path.
SetPath(k, kubeConfigFile) == [k EXCEPT !.kubeConfigFile = kubeConfigFile]

\* Settings.filePath: the stored path.
filePath(k) == k.kubeConfigFile

\* ---------------------------------------------------------------- api.Config

\* api.NewConfig(): empty maps and no current context.
NewConfig ==
    [Clusters |-> EmptyMap, AuthInfos |-> EmptyMap, Contexts |-> EmptyMap,
     CurrentContext |-> EmptyString]

\* api.NewCluster(), api.NewAuthInfo(), api.NewContext(): zero-valued entries.
NewCluster ==
    [Server |-> EmptyString, CertificateAuthority |-> EmptyString,
     CertificateAuthorityData |-> NoBytes, Extensions |-> EmptyMap]

NewAuthInfo ==
    [ClientCertificate |-> EmptyString, ClientCertificateData |-> NoBytes,
     ClientKey |-> EmptyString, ClientKeyData |-> NoBytes]

NewContext ==
    [Cluster |-> EmptyString, Namespace |-> EmptyString,
     AuthInfo |-> EmptyString, Extensions |-> EmptyMap]

\* The internalExtension stamped at time t.
NewExtension(t) == [CreatedBy |-> "minikube.sigs.k8s.io", LastUpdate |-> t]

\* ---------------------------------------------------------------- PopulateFromSettings

\* Mutant: the path of the CA file is set whether or not the bytes are inlined.
BuildCluster_keepsPath(cfg, caData, ext) ==
    [Server |-> cfg.ClusterServerAddress,
     CertificateAuthority |-> cfg.CertificateAuthority,
     CertificateAuthorityData |-> IF cfg.EmbedCerts THEN caData ELSE <<>>,
     Extensions |-> [x \in {"cluster_info"} |-> ext]]

\* The cluster entry built from cfg, with the CA bytes read (if embedding).
BuildCluster(cfg, caData, ext) ==
    [NewCluster EXCEPT
        !.Server = cfg.ClusterServerAddress,
        !.CertificateAuthorityData = IF cfg.EmbedCerts THEN caData ELSE NoBytes,
        !.CertificateAuthority =
            IF cfg.EmbedCerts THEN EmptyString ELSE cfg.CertificateAuthority,
        !.Extensions = MapPut(EmptyMap, "cluster_info", ext)]

\* Mutant: the path of the client certificate is set from cfg.ClientKey.
BuildUser_keyAsCert(cfg, certData, keyData) ==
    [ClientCertificateData |-> IF cfg.EmbedCerts THEN certData ELSE <<>>,
     ClientKeyData |-> IF cfg.EmbedCerts THEN keyData ELSE <<>>,
     ClientCertificate |-> IF cfg.EmbedCerts THEN "" ELSE cfg.ClientKey,
     ClientKey |-> IF cfg.EmbedCerts THEN "" ELSE cfg.ClientKey]

\* The credential entry built from cfg, with the bytes read (if embedding).
BuildUser(cfg, certData, keyData) ==
    [NewAuthInfo EXCEPT
        !.ClientCertificateData = IF cfg.EmbedCerts THEN certData ELSE NoBytes,
        !.ClientKeyData = IF cfg.EmbedCerts THEN keyData ELSE NoBytes,
        !.ClientCertificate =
            IF cfg.EmbedCerts THEN EmptyString ELSE cfg.ClientCertificate,
        !.ClientKey = IF cfg.EmbedCerts THEN EmptyString ELSE cfg.ClientKey]

\* Mutant: the context refers to the cluster by its server address.
BuildContext_serverAsCluster(cfg, userName, ext) ==
    [Cluster |-> cfg.ClusterServerAddress, Namespace |-> cfg.Namespace,
     AuthInfo |-> userName,
     Extensions |-> [x \in {"context_info"} |-> ext]]

\* The context entry built from cfg.
BuildContext(cfg, userName, ext) ==
    [NewContext EXCEPT
        !.Cluster = cfg.ClusterName,
        !.Namespace = cfg.Namespace,
        !.AuthInfo = userName,
        !.Extensions = MapPut(EmptyMap, "context_info", ext)]

\* Mutant: the current context is set whatever KeepContext says.
SelectContext_always(cfg, current) == cfg.ClusterName

\* Mutant: the current context is set only when none is set.
SelectContext_ifUnset(cfg, current) ==
    IF current = "" THEN cfg.ClusterName ELSE current

\* The current context after the call: set unless KeepContext.
SelectContext(cfg, current) ==
    IF ~cfg.KeepContext THEN cfg.ClusterName ELSE current

\* Mutant: a new entry without inlined CA bytes keeps those of the entry it
\* replaces.
PutCluster_merging(apiCfg, clusterName, cluster) ==
    LET old == apiCfg.Clusters
        merged == IF clusterName \in DOMAIN old
                     /\ cluster.CertificateAuthorityData = <<>>
                  THEN [cluster EXCEPT !.CertificateAuthorityData =
                            old[clusterName].CertificateAuthorityData]
                  ELSE cluster
    IN  [apiCfg EXCEPT !.Clusters =
            [x \in (DOMAIN old) \cup {clusterName} |->
                IF x = clusterName THEN merged ELSE old[x]]]

\* apiCfg.Clusters[clusterName] = cluster
PutCluster(apiCfg, clusterName, cluster) ==
    [apiCfg EXCEPT !.Clusters = MapPut(apiCfg.Clusters, clusterName, cluster)]

\* Mutant: the credential entry is built but not stored in the document.
PutUser_dropped(apiCfg, userName, user) == apiCfg

\* apiCfg.AuthInfos[userName] = user
PutUser(apiCfg, userName, user) ==
    [apiCfg EXCEPT !.AuthInfos = MapPut(apiCfg.AuthInfos, userName, user)]

\* apiCfg.Contexts[contextName] = context
PutContext(apiCfg, contextName, context) ==
    [apiCfg EXCEPT !.Contexts = MapPut(apiCfg.Contexts, contextName, context)]

\* Mutant: the cluster entry is put into the document before the CA file is
\* read.
PopulateFromSettings_clusterFirst(cfg, apiCfg, readable, t) ==
    LET clusterName == cfg.ClusterName
        ca   == ReadFile(cfg.CertificateAuthority, readable)
        crt  == ReadFile(cfg.ClientCertificate, readable)
        key  == ReadFile(cfg.ClientKey, readable)
        ext  == NewExtension(t)
        cluster == BuildCluster(cfg, ca.data, ext)
        withCluster == PutCluster(apiCfg, clusterName, cluster)
        userName == cfg.ClusterName
        user == BuildUser(cfg, crt.data, key.data)
        withUser == PutUser(withCluster, userName, user)
        contextName == cfg.ClusterName
        context == BuildContext(cfg, userName, ext)
        withContext == PutContext(withUser, contextName, context)
    IN  IF cfg.EmbedCerts /\ ca.err
        THEN [err |-> "reading CertificateAuthority", apiCfg |-> withCluster,
              reads |-> <<cfg.CertificateAuthority>>, clock |-> FALSE]
        ELSE IF cfg.EmbedCerts /\ crt.err
        THEN [err |-> "reading ClientCertificate", apiCfg |-> withCluster,
              reads |-> <<cfg.CertificateAuthority, cfg.ClientCertificate>>,
              clock |-> TRUE]
        ELSE IF cfg.EmbedCerts /\ key.err
        THEN [err |-> "reading ClientKey", apiCfg |-> withCluster,
              reads |-> <<cfg.CertificateAuthority, cfg.ClientCertificate,
                          cfg.ClientKey>>,
              clock |-> TRUE]
        ELSE [err |-> "nil",
              apiCfg |-> [withContext EXCEPT
                  !.CurrentContext = SelectContext(cfg, apiCfg.CurrentContext)],
              reads |-> IF cfg.EmbedCerts
                        THEN <<cfg.CertificateAuthority, cfg.ClientCertificate,
                               cfg.ClientKey>>
                        ELSE <<>>,
              clock |-> TRUE]

\* Mutant: the credential entry is put into the document before the client
\* certificate and the key are read.
PopulateFromSettings_userEarly(cfg, apiCfg, readable, t) ==
    LET clusterName == cfg.ClusterName
        ca   == ReadFile(cfg.CertificateAuthority, readable)
        crt  == ReadFile(cfg.ClientCertificate, readable)
        key  == ReadFile(cfg.ClientKey, readable)
        ext  == NewExtension(t)
        cluster == BuildCluster(cfg, ca.data, ext)
        withCluster == PutCluster(apiCfg, clusterName, cluster)
        userName == cfg.ClusterName
        user == BuildUser(cfg, crt.data, key.data)
        withUser == PutUser(withCluster, userName, user)
        contextName == cfg.ClusterName
        context == BuildContext(cfg, userName, ext)
        withContext == PutContext(withUser, contextName, context)
    IN  IF cfg.EmbedCerts /\ ca.err
        THEN [err |-> "reading CertificateAuthority", apiCfg |-> apiCfg,
              reads |-> <<cfg.CertificateAuthority>>, clock |-> FALSE]
        ELSE IF cfg.EmbedCerts /\ crt.err
        THEN [err |-> "reading ClientCertificate", apiCfg |-> withUser,
              reads |-> <<cfg.CertificateAuthority, cfg.ClientCertificate>>,
              clock |-> TRUE]
        ELSE IF cfg.EmbedCerts /\ key.err
        THEN [err |-> "reading ClientKey", apiCfg |-> withUser,
              reads |-> <<cfg.CertificateAuthority, cfg.ClientCertificate,
                          cfg.ClientKey>>,
              clock |-> TRUE]
        ELSE [err |-> "nil",
              apiCfg |-> [withContext EXCEPT
                  !.CurrentContext = SelectContext(cfg, apiCfg.CurrentContext)],
              reads |-> IF cfg.EmbedCerts
                        THEN <<cfg.CertificateAuthority, cfg.ClientCertificate,
                               cfg.ClientKey>>
                        ELSE <<>>,
              clock |-> TRUE]

\* PopulateFromSettings(cfg, apiCfg) when the certificate files in `readable`
\* can be read and time.Now() is t: the error returned, the document as the
\* call leaves it, the certificate files it read (in order) and whether it read
\* the clock.
PopulateFromSettings(cfg, apiCfg, readable, t) ==
    LET clusterName == cfg.ClusterName
        ca   == ReadFile(cfg.CertificateAuthority, readable)
        crt  == ReadFile(cfg.ClientCertificate, readable)
        key  == ReadFile(cfg.ClientKey, readable)
        ext  == NewExtension(t)
        cluster == BuildCluster(cfg, ca.data, ext)
        withCluster == PutCluster(apiCfg, clusterName, cluster)
        userName == cfg.ClusterName
        user == BuildUser(cfg, crt.data, key.data)
        withUser == PutUser(withCluster, userName, user)
        contextName == cfg.ClusterName
        context == BuildContext(cfg, userName, ext)
        withContext == PutContext(withUser, contextName, context)
    IN  IF cfg.EmbedCerts /\ ca.err
        THEN [err |-> "reading CertificateAuthority", apiCfg |-> apiCfg,
              reads |-> <<cfg.CertificateAuthority>>, clock |-> FALSE]
        ELSE IF cfg.EmbedCerts /\ crt.err
        THEN [err |-> "reading ClientCertificate", apiCfg |-> withCluster,
              reads |-> <<cfg.CertificateAuthority, cfg.ClientCertificate>>,
              clock |-> TRUE]
        ELSE IF cfg.EmbedCerts /\ key.err
        THEN [err |-> "reading ClientKey", apiCfg |-> withCluster,
              reads |-> <<cfg.CertificateAuthority, cfg.ClientCertificate,
                          cfg.ClientKey>>,
              clock |-> TRUE]
        ELSE [err |-> "nil",
              apiCfg |-> [withContext EXCEPT
                  !.CurrentContext = SelectContext(cfg, apiCfg.CurrentContext)],
              reads |-> IF cfg.EmbedCerts
                        THEN <<cfg.CertificateAuthority, cfg.ClientCertificate,
                               cfg.ClientKey>>
                        ELSE <<>>,
              clock |-> TRUE]

\* ---------------------------------------------------------------- files and lock

\* What a kubeconfig path holds: no file, a file that does not parse, or the
\* serialized form of a document.
Missing == [kind |-> "missing"]
Unparsable == [kind |-> "unparsable"]
Encode(config) == [kind |-> "kubeconfig", content |-> config]

\* readOrNew(path): a new document when the file is missing, an error when it
\* does not parse, the document it holds otherwise.
readOrNew(file) ==
    IF file = Missing THEN [err |-> FALSE, config |-> NewConfig]
    ELSE IF file = Unparsable THEN [err |-> TRUE, config |-> NewConfig]
    ELSE [err |-> FALSE, config |-> file.content]

\* writeToFile(config, path) on a path that holds `file`: the file afterwards
\* and whether the call failed. A failed write leaves the file as it was or,
\* with a writer that is not atomic, incomplete.
writeToFile(config, file) ==
    {[err |-> FALSE, file |-> Encode(config)],
     [err |-> TRUE, file |-> file],
     [err |-> TRUE, file |-> Unparsable]}

\* filepath.Join and lock.PathMutexSpec: the lock name is a function of the path.
Join(dir, elem) == <<dir, elem>>
PathMutexSpec(path) == [Name |-> path]

\* Mutant: the lock is named after the cluster, not after the file.
UpdateLockSpec_byCluster(k) ==
    PathMutexSpec(Join(k.ClusterName, "settings.Update"))

\* Mutant: one lock name for every file.
UpdateLockSpec_global(k) == PathMutexSpec(Join("", "settings.Update"))

\* The lock specification Update derives from its Settings.
UpdateLockSpec(k) == PathMutexSpec(Join(filePath(k), "settings.Update"))

\* A document with an entry of an earlier run under "minikube": inlined
\* certificates, another namespace and address, and selected as current.
OldExtension == [CreatedBy |-> "minikube.sigs.k8s.io", LastUpdate |-> 0]

StaleConfig ==
    [Clusters |-> MapPut(EmptyMap, "minikube",
        [Server |-> "https://192.168.39.7:8443",
         CertificateAuthority |-> EmptyString,
         CertificateAuthorityData |-> <<91>>,
         Extensions |-> MapPut(EmptyMap, "cluster_info", OldExtension)]),
     AuthInfos |-> MapPut(EmptyMap, "minikube",
        [ClientCertificate |-> EmptyString, ClientCertificateData |-> <<92>>,
         ClientKey |-> EmptyString, ClientKeyData |-> <<93>>]),
     Contexts |-> MapPut(EmptyMap, "minikube",
        [Cluster |-> "minikube", Namespace |-> "old", AuthInfo |-> "minikube",
         Extensions |-> MapPut(EmptyMap, "context_info", OldExtension)]),
     CurrentContext |-> "minikube"]

\* A document whose current context names no entry.
DanglingConfig == [NewConfig EXCEPT !.CurrentContext = "gone"]

\* What the first kubeconfig path may hold before any call.
InitialFiles == {Missing, Unparsable, Encode(StaleConfig), Encode(DanglingConfig)}

\* ---------------------------------------------------------------- state

VARIABLES
    kcs,        \* kcs[c]: the Settings of call c
    pc,         \* pc[c]: where call c is in Update
    spec,       \* spec[c]: the lock specification call c derived
    held,       \* the locks held: pairs <<lock name, holder>>
    kcfg,       \* kcfg[c]: the in-memory document of call c
    err,        \* err[c]: the error call c returned ("nil" for success)
    disk,       \* disk[path]: what the kubeconfig path holds
    now,        \* the clock time.Now() reads
    faults,     \* failures of the environment so far
    released,   \* released[c]: number of Release calls of call c
    before,     \* before[c]: what the target path held when call c was entered
    seen,       \* seen[c]: what the target path held when call c loaded it
    after,      \* after[c]: what the target path held when call c returned
    wrote,      \* wrote[c]: call c executed its persist step
    stamp,      \* stamp[c]: the time call c stamped on its entries
    reads,      \* reads[c]: the certificate files call c read, in order
    disk0,      \* what the paths held before any call
    pathsRead   \* pathsRead[c]: what filePath() returned to call c, in order

vars == <<kcs, pc, spec, held, kcfg, err, disk, now, faults, released, before,
          seen, after, wrote, stamp, reads, disk0, pathsRead>>

\* The history of call c, which the steps of Update record.
hist == <<before, seen, after, wrote, stamp, reads, disk0, pathsRead>>

NoFile == [kind |-> "none"]

\* Each caller has built its Settings, called SetPath(targets[c]) and called
\* Update, which has derived its lock specification from the path and is about
\* to acquire the lock; the user's kubeconfig holds one of InitialFiles.
InitWith(targets) ==
    /\ \E names \in [Calls -> {AllNames[i] : i \in 1..Len(AllNames)}],
          keeps \in [Calls -> BOOLEAN], embeds \in [Calls -> BOOLEAN] :
          /\ \A c \in Calls : names[c] \in ClusterNames(c)
          /\ kcs = [c \in Calls |->
                      SetPath(NewSettings(c, names[c], keeps[c], embeds[c]),
                              targets[c])]
    /\ pc = [c \in Calls |-> "acquire"]
    /\ spec = [c \in Calls |-> UpdateLockSpec(kcs[c])]
    /\ held = {}
    /\ kcfg = [c \in Calls |-> NewConfig]
    /\ err = [c \in Calls |-> "nil"]
    /\ \E f \in InitialFiles :
          disk = [p \in Paths |-> IF p = KubeConfig THEN f ELSE Missing]
    /\ now = 1
    /\ faults = 0
    /\ released = [c \in Calls |-> 0]
    /\ before = [c \in Calls |-> disk[filePath(kcs[c])]]
    /\ seen = [c \in Calls |-> NoFile]
    /\ after = [c \in Calls |-> NoFile]
    /\ wrote = [c \in Calls |-> FALSE]
    /\ stamp = [c \in Calls |-> 0]
    /\ reads = [c \in Calls |-> <<>>]
    /\ disk0 = disk
    /\ pathsRead = [c \in Calls |-> <<filePath(kcs[c])>>]

Init == InitWith([c \in Calls |-> KubeConfig])

\* ---------------------------------------------------------------- Update

\* Mutant: the lock is released on the successful return only.
Return_leaky(c, e) ==
    /\ pc' = [pc EXCEPT ![c] = "done"]
    /\ err' = [err EXCEPT ![c] = e]
    /\ held' = IF e = "nil" THEN held \ {<<spec[c].Name, c>>} ELSE held
    /\ released' = [released EXCEPT ![c] = IF e = "nil" THEN @ + 1 ELSE @]

\* Mutant: Release is not deferred; the lock stays held after the return.
Return_unreleased(c, e) ==
    /\ pc' = [pc EXCEPT ![c] = "done"]
    /\ err' = [err EXCEPT ![c] = e]
    /\ UNCHANGED <<held, released>>

\* `return e` of Update once the lock is held: the deferred Release runs.
Return(c, e) ==
    /\ pc' = [pc EXCEPT ![c] = "done"]
    /\ err' = [err EXCEPT ![c] = e]
    /\ held' = held \ {<<spec[c].Name, c>>}
    /\ released' = [released EXCEPT ![c] = @ + 1]

\* mutex.Acquire(spec) is granted: no call holds the lock of that name.
Acquire(c) ==
    /\ pc[c] = "acquire"
    /\ \A h \in held : h[1] # spec[c].Name
    /\ held' = held \cup {<<spec[c].Name, c>>}
    /\ pc' = [pc EXCEPT ![c] = "load"]
    /\ UNCHANGED <<kcs, spec, kcfg, err, disk, now, faults, released, hist>>

\* Mutant: the error of mutex.Acquire is ignored and the call goes on to load.
AcquireFail_proceeding(c) ==
    /\ pc[c] = "acquire"
    /\ \E h \in held : h[1] = spec[c].Name
    /\ faults < MaxFaults
    /\ faults' = faults + 1
    /\ pc' = [pc EXCEPT ![c] = "load"]
    /\ UNCHANGED <<kcs, spec, held, kcfg, err, disk, now, released, hist>>

\* mutex.Acquire(spec) gives up while another call holds the lock: Update
\* returns the error, and no Release is deferred.
AcquireFail(c) ==
    /\ pc[c] = "acquire"
    /\ \E h \in held : h[1] = spec[c].Name
    /\ faults < MaxFaults
    /\ faults' = faults + 1
    /\ pc' = [pc EXCEPT ![c] = "done"]
    /\ err' = [err EXCEPT ![c] = "unable to acquire lock"]
    /\ after' = [after EXCEPT ![c] = disk[filePath(kcs[c])]]
    /\ UNCHANGED <<kcs, spec, held, kcfg, disk, now, released, before, seen,
                   wrote, stamp, reads, disk0, pathsRead>>

\* Mutant: the lock is released as soon as the file is read.
Load_releasing(c) ==
    /\ pc[c] = "load"
    /\ LET file == disk[filePath(kcs[c])]
           r == readOrNew(file)
       IN  /\ seen' = [seen EXCEPT ![c] = file]
           /\ held' = held \ {<<spec[c].Name, c>>}
           /\ IF r.err
              THEN /\ pc' = [pc EXCEPT ![c] = "done"]
                   /\ err' = [err EXCEPT ![c] = "load"]
                   /\ released' = [released EXCEPT ![c] = @ + 1]
                   /\ after' = [after EXCEPT ![c] = file]
                   /\ UNCHANGED kcfg
              ELSE /\ kcfg' = [kcfg EXCEPT ![c] = r.config]
                   /\ pc' = [pc EXCEPT ![c] = "populate"]
                   /\ UNCHANGED <<err, released, after>>
    /\ pathsRead' = [pathsRead EXCEPT ![c] = Append(@, filePath(kcs[c]))]
    /\ UNCHANGED <<kcs, spec, disk, now, faults, before, wrote, stamp, reads,
                   disk0>>

\* Mutant: a file that does not parse is treated like a missing one.
Load_ignoringError(c) ==
    /\ pc[c] = "load"
    /\ LET file == disk[filePath(kcs[c])]
           r == readOrNew(file)
       IN  /\ seen' = [seen EXCEPT ![c] = file]
           /\ kcfg' = [kcfg EXCEPT ![c] = r.config]
           /\ pc' = [pc EXCEPT ![c] = "populate"]
           /\ UNCHANGED <<err, held, released, after>>
    /\ pathsRead' = [pathsRead EXCEPT ![c] = Append(@, filePath(kcs[c]))]
    /\ UNCHANGED <<kcs, spec, disk, now, faults, before, wrote, stamp, reads,
                   disk0>>

\* kcfg, err := readOrNew(kcs.filePath())
Load(c) ==
    /\ pc[c] = "load"
    /\ LET file == disk[filePath(kcs[c])]
           r == readOrNew(file)
       IN  /\ seen' = [seen EXCEPT ![c] = file]
           /\ IF r.err
              THEN /\ Return(c, "load")
                   /\ after' = [after EXCEPT ![c] = file]
                   /\ UNCHANGED kcfg
              ELSE /\ kcfg' = [kcfg EXCEPT ![c] = r.config]
                   /\ pc' = [pc EXCEPT ![c] = "populate"]
                   /\ UNCHANGED <<err, held, released, after>>
    /\ pathsRead' = [pathsRead EXCEPT ![c] = Append(@, filePath(kcs[c]))]
    /\ UNCHANGED <<kcs, spec, disk, now, faults, before, wrote, stamp, reads,
                   disk0>>

\* Which certificate files of Settings k are readable when PopulateFromSettings
\* runs, up to what the call can tell apart: it reads the CA file, the client
\* certificate and the client key in this order and stops at the first read
\* that fails, and it reads none of them without EmbedCerts.
Readable(k) ==
    IF k.EmbedCerts
    THEN {{},
          {k.CertificateAuthority},
          {k.CertificateAuthority, k.ClientCertificate},
          {k.CertificateAuthority, k.ClientCertificate, k.ClientKey}}
    ELSE {{}, {k.CertificateAuthority, k.ClientCertificate, k.ClientKey}}

\* Mutant: the document is written back before the error of the projection
\* is looked at.
Populate_persisting(c) ==
    /\ pc[c] = "populate"
    /\ \E readable \in Readable(kcs[c]) :
         LET r == PopulateFromSettings(kcs[c], kcfg[c], readable, now)
         IN  /\ r.err # "nil" => faults < MaxFaults
             /\ faults' = IF r.err # "nil" THEN faults + 1 ELSE faults
             /\ kcfg' = [kcfg EXCEPT ![c] = r.apiCfg]
             /\ reads' = [reads EXCEPT ![c] = r.reads]
             /\ now' = IF r.clock THEN now + 1 ELSE now
             /\ stamp' = [stamp EXCEPT ![c] = IF r.clock THEN now ELSE @]
             /\ IF r.err # "nil"
                THEN /\ Return(c, r.err)
                     /\ disk' = [disk EXCEPT ![filePath(kcs[c])] = Encode(r.apiCfg)]
                     /\ after' = [after EXCEPT ![c] = Encode(r.apiCfg)]
                ELSE /\ pc' = [pc EXCEPT ![c] = "write"]
                     /\ UNCHANGED <<err, held, released, after, disk>>
    /\ UNCHANGED <<kcs, spec, before, seen, wrote, disk0, pathsRead>>

\* err = PopulateFromSettings(kcs, kcfg)
Populate(c) ==
    /\ pc[c] = "populate"
    /\ \E readable \in Readable(kcs[c]) :
         LET r == PopulateFromSettings(kcs[c], kcfg[c], readable, now)
         IN  /\ r.err # "nil" => faults < MaxFaults
             /\ faults' = IF r.err # "nil" THEN faults + 1 ELSE faults
             /\ kcfg' = [kcfg EXCEPT ![c] = r.apiCfg]
             /\ reads' = [reads EXCEPT ![c] = r.reads]
             /\ now' = IF r.clock THEN now + 1 ELSE now
             /\ stamp' = [stamp EXCEPT ![c] = IF r.clock THEN now ELSE @]
             /\ IF r.err # "nil"
                THEN /\ Return(c, r.err)
                     /\ after' = [after EXCEPT ![c] = disk[filePath(kcs[c])]]
                ELSE /\ pc' = [pc EXCEPT ![c] = "write"]
                     /\ UNCHANGED <<err, held, released, after>>
    /\ UNCHANGED <<kcs, spec, disk, before, seen, wrote, disk0, pathsRead>>

\* writeToFile(kcfg, kcs.filePath()), and the return after it.
Write(c) ==
    /\ pc[c] = "write"
    /\ \E w \in writeToFile(kcfg[c], disk[filePath(kcs[c])]) :
         /\ w.err => faults < MaxFaults
         /\ faults' = IF w.err THEN faults + 1 ELSE faults
         /\ disk' = [disk EXCEPT ![filePath(kcs[c])] = w.file]
         /\ after' = [after EXCEPT ![c] = w.file]
         /\ Return(c, IF w.err THEN "writing kubeconfig" ELSE "nil")
    /\ wrote' = [wrote EXCEPT ![c] = TRUE]
    /\ pathsRead' = [pathsRead EXCEPT ![c] = Append(@, filePath(kcs[c]))]
    /\ UNCHANGED <<kcs, spec, kcfg, now, before, seen, stamp, reads, disk0>>

Next ==
    \E c \in Calls :
        \/ Acquire(c)
        \/ AcquireFail(c)
        \/ Load(c)
        \/ Populate(c)
        \/ Write(c)

Spec == Init /\ [][Next]_vars

\* Another thread of the caller of call c calls SetPath on the Settings that
\* call c was given, while the call is running, and redirects it to the other
\* kubeconfig.
CallSetPath(c) ==
    /\ pc[c] # "done"
    /\ filePath(kcs[c]) # OtherConfig
    /\ kcs' = [kcs EXCEPT ![c] = SetPath(@, OtherConfig)]
    /\ UNCHANGED <<pc, spec, held, kcfg, err, disk, now, faults, released, hist>>

NextSetPath ==
    \/ Next
    \/ \E c \in Calls : CallSetPath(c)

\* The runs in which SetPath may be called while Update is running. The callers
\* neither inline certificates nor keep the context.
InitSetPath ==
    /\ Init
    /\ \A c \in Calls : ~kcs[c].EmbedCerts /\ ~kcs[c].KeepContext

SpecSetPath == InitSetPath /\ [][NextSetPath]_vars

\* The lock collaborator and the file system are fair: a waiting acquisition
\* is granted once the lock stays free (it may also time out while the lock
\* is held, which nothing forces), and the load, the projection with its
\* certificate reads and the write each terminate.
Fairness ==
    \A c \in Calls :
        /\ WF_vars(Acquire(c))
        /\ WF_vars(Load(c))
        /\ WF_vars(Populate(c))
        /\ WF_vars(Write(c))

\* The runs under fairness. KeepContext is off: the current context plays no
\* part in the progress of a call.
InitFair == Init /\ \A c \in Calls : ~kcs[c].KeepContext

SpecFair == InitFair /\ [][Next]_vars /\ Fairness

\* The runs that start from a kubeconfig whose current context does not dangle:
\* the file is missing, does not parse, or holds a document whose current
\* context is one of its context entries.
ConsistentFiles == InitialFiles \ {Encode(DanglingConfig)}

InitConsistent == Init /\ disk0[KubeConfig] \in ConsistentFiles

SpecConsistent == InitConsistent /\ [][Next]_vars

\* The runs in which each caller has chosen either path for its Settings. The
\* callers neither inline certificates nor keep the context: the projection
\* is the same in every such run.
InitPaths ==
    /\ \E targets \in [Calls -> Paths] : InitWith(targets)
    /\ \A c \in Calls : ~kcs[c].EmbedCerts /\ ~kcs[c].KeepContext

SpecPaths == InitPaths /\ [][Next]_vars

\* ---------------------------------------------------------------- properties

\* The certificate files of Settings k.
CertPaths(k) == {k.CertificateAuthority, k.ClientCertificate, k.ClientKey}

\* The errors of a certificate read.
CertErrors ==
    {"reading CertificateAuthority", "reading ClientCertificate",
     "reading ClientKey"}

\* Call c has loaded a document (its load step succeeded).
HasLoaded(c) == seen[c] # NoFile /\ seen[c] # Unparsable

\* The document call c loaded, before its projection.
Loaded(c) == readOrNew(seen[c]).config

\* PopulateFromSettings returned nil in call c.
Projected(c) ==
    \/ pc[c] = "write"
    \/ pc[c] = "done" /\ err[c] \in {"nil", "writing kubeconfig"}

\* Update returned nil in call c.
Succeeded(c) == pc[c] = "done" /\ err[c] = "nil"

\* What call c produces on an empty document, all its files readable.
Alone(c) ==
    PopulateFromSettings(kcs[c], NewConfig, CertPaths(kcs[c]), stamp[c]).apiCfg

\* The calls applied one after another, in the given order, to a document.
RECURSIVE Serial(_, _)
Serial(order, doc) ==
    IF order = <<>> THEN doc
    ELSE Serial(Tail(order),
                PopulateFromSettings(kcs[Head(order)], doc,
                    CertPaths(kcs[Head(order)]), stamp[Head(order)]).apiCfg)

\* The total orders of the calls.
Orders ==
    {o \in [1..NumCalls -> Calls] : \A i, j \in 1..NumCalls : i # j => o[i] # o[j]}

\* The entries under key `name` of documents a and b are the same.
SameEntries(a, b, name) ==
    /\ name \in DOMAIN a.Clusters /\ name \in DOMAIN b.Clusters
    /\ name \in DOMAIN a.AuthInfos /\ name \in DOMAIN b.AuthInfos
    /\ name \in DOMAIN a.Contexts /\ name \in DOMAIN b.Contexts
    /\ a.Clusters[name] = b.Clusters[name]
    /\ a.AuthInfos[name] = b.AuthInfos[name]
    /\ a.Contexts[name] = b.Contexts[name]

\* All calls succeeded, on one file and with pairwise distinct cluster names.
AllSucceededDistinct ==
    /\ \A c \in Calls : Succeeded(c) /\ filePath(kcs[c]) = KubeConfig
    /\ \A c, d \in Calls : c # d => kcs[c].ClusterName # kcs[d].ClusterName

\* C1: when the N calls, with pairwise distinct cluster names and one target
\* file, have all succeeded, the file holds the entries of every call and is
\* what applying the calls one after another in some total order produces from
\* the initial file.
C1_NoLostUpdate ==
    AllSucceededDistinct =>
        /\ disk[KubeConfig].kind = "kubeconfig"
        /\ \A c \in Calls :
              SameEntries(disk[KubeConfig].content, Alone(c), kcs[c].ClusterName)
        /\ \E o \in Orders :
              disk[KubeConfig] =
                  Encode(Serial(o, readOrNew(disk0[KubeConfig]).config))

\* C1 witness: all calls succeeded with distinct names, and the first call
\* loaded what the last call had persisted.
C1_Witness ==
    /\ AllSucceededDistinct
    /\ seen[1] = after[NumCalls]
    /\ \A c \in Calls : kcs[c].ClusterName \in DOMAIN disk[KubeConfig].content.Contexts

\* Call c is between its load and the end of its persist.
InCritical(c) == pc[c] \in {"populate", "write"}

\* C2: at most one call per target path is between its load and the end of
\* its persist; while a call is there the file is still what it loaded (no
\* other persist came in between), and what it loaded is the initial file or
\* what another call persisted.
C2_MutualExclusion ==
    \A c \in Calls :
        InCritical(c) =>
            /\ \A d \in Calls \ {c} :
                  filePath(kcs[d]) = filePath(kcs[c]) => ~InCritical(d)
            /\ disk[filePath(kcs[c])] = seen[c]
            /\ \/ seen[c] = disk0[filePath(kcs[c])]
               \/ \E d \in Calls \ {c} : wrote[d] /\ seen[c] = after[d]

\* C2 witness: a call is between load and persist of a document another call
\* persisted, while a further call waits for the lock of the same path.
C2_Witness ==
    \E c \in Calls : \E d \in Calls \ {c} :
        /\ InCritical(c)
        /\ pc[d] = "acquire" /\ spec[d] = spec[c]
        /\ seen[c] # Missing

\* C3: a call that has returned holds no lock; it called Release exactly once
\* if it had acquired the lock and never if the acquisition failed; a call
\* that has not returned has not called Release.
C3_GuaranteedRelease ==
    \A c \in Calls :
        /\ pc[c] = "done" =>
              /\ \A h \in held : h[2] # c
              /\ released[c] = IF err[c] = "unable to acquire lock" THEN 0 ELSE 1
        /\ pc[c] # "done" => released[c] = 0

\* C3 witness: a call returned an error after acquiring the lock, and another
\* call holds that lock now.
C3_Witness ==
    \E c \in Calls : \E d \in Calls \ {c} :
        /\ pc[c] = "done" /\ released[c] = 1
        /\ err[c] \in CertErrors \cup {"load", "writing kubeconfig"}
        /\ <<spec[c].Name, d>> \in held

\* C4 as stated: after a certificate read failed, the call has not persisted
\* and the file is what it was before the call.
C4_DiskAsBeforeCall ==
    \A c \in Calls :
        pc[c] = "done" /\ err[c] \in CertErrors =>
            ~wrote[c] /\ after[c] = before[c]

\* C4 amended: after a certificate read failed, the call returned that error,
\* has not persisted, and the file is, when the call returns, what the call
\* loaded under the lock.
C4_NothingPersisted ==
    \A c \in Calls :
        pc[c] = "done" /\ err[c] \in CertErrors =>
            /\ kcs[c].EmbedCerts
            /\ ~wrote[c]
            /\ after[c] = seen[c]

\* C4 witness: a client certificate read failed after the cluster entry was
\* put into the in-memory document; the file is what the call loaded.
C4_Witness ==
    \E c \in Calls :
        /\ pc[c] = "done" /\ err[c] = "reading ClientCertificate"
        /\ kcfg[c] # Loaded(c)
        /\ after[c] = seen[c] /\ disk[filePath(kcs[c])] = seen[c]
        /\ seen[c] # before[c]

C6_SetsContext ==
    \A c \in Calls :
        ~kcs[c].KeepContext /\ Projected(c) =>
            /\ kcfg[c].CurrentContext = kcs[c].ClusterName
            /\ Succeeded(c) =>
                  /\ after[c].kind = "kubeconfig"
                  /\ after[c].content.CurrentContext = kcs[c].ClusterName

\* C6 witness: a call without KeepContext succeeded on a document whose
\* current context was set to another name.
C6_Witness ==
    \E c \in Calls :
        /\ ~kcs[c].KeepContext /\ Succeeded(c)
        /\ Loaded(c).CurrentContext \notin {EmptyString, kcs[c].ClusterName}
        /\ after[c].content.CurrentContext = kcs[c].ClusterName

\* C7: when the document Update loads has no current context, a successful
\* Update persists the cluster name as the current context, whatever
\* KeepContext is.
C7_UnsetContextBecomesName ==
    \A c \in Calls :
        Succeeded(c) /\ Loaded(c).CurrentContext = EmptyString =>
            after[c].content.CurrentContext = kcs[c].ClusterName

\* C8: the entries a successful Update persists under its cluster name are
\* those the call produces on an empty document: nothing of the entries that
\* were under that key survives.
C8_FullReplacement ==
    \A c \in Calls :
        Succeeded(c) =>
            /\ after[c].kind = "kubeconfig"
            /\ SameEntries(after[c].content, Alone(c), kcs[c].ClusterName)

\* C8 witness: a call that inlines certificates succeeded, then a call with
\* the same cluster name that does not inline them loaded the result and
\* succeeded: the entry holds no inlined bytes and the second call's stamp.
C8_Witness ==
    \E c \in Calls : \E d \in Calls \ {c} :
        /\ Succeeded(c) /\ Succeeded(d)
        /\ kcs[c].ClusterName = kcs[d].ClusterName
        /\ seen[c] = after[d]
        /\ kcs[d].EmbedCerts /\ ~kcs[c].EmbedCerts
        /\ seen[c].content.Clusters[kcs[c].ClusterName].CertificateAuthorityData
              # NoBytes
        /\ after[c].content.Clusters[kcs[c].ClusterName].CertificateAuthorityData
              = NoBytes
        /\ after[c].content.AuthInfos[kcs[c].ClusterName].ClientKeyData = NoBytes
        /\ after[c].content.Clusters[kcs[c].ClusterName].Extensions["cluster_info"].LastUpdate
              = stamp[c]
        /\ stamp[c] # stamp[d]

\* Map `new` holds every entry of map `old` whose key is not `name`,
\* unchanged, and no key of `old` is missing from it.
OthersKept(old, new, name) ==
    /\ DOMAIN old \subseteq DOMAIN new
    /\ DOMAIN new \subseteq (DOMAIN old) \cup {name}
    /\ \A k \in (DOMAIN old) \ {name} : new[k] = old[k]

\* C9: PopulateFromSettings, successful or not, changes in each mapping only
\* the entry under the cluster name and removes no key; after a successful
\* Update that loaded what a successful Update with another cluster name
\* persisted, the file holds the entries of both.
C9_OtherKeysUntouched ==
    \A c \in Calls :
        /\ HasLoaded(c) =>
              /\ OthersKept(Loaded(c).Clusters, kcfg[c].Clusters, kcs[c].ClusterName)
              /\ OthersKept(Loaded(c).AuthInfos, kcfg[c].AuthInfos, kcs[c].ClusterName)
              /\ OthersKept(Loaded(c).Contexts, kcfg[c].Contexts, kcs[c].ClusterName)
        /\ \A d \in Calls \ {c} :
              /\ Succeeded(c) /\ Succeeded(d)
              /\ kcs[c].ClusterName # kcs[d].ClusterName
              /\ seen[c] = after[d]
              => /\ SameEntries(after[c].content, after[d].content, kcs[d].ClusterName)
                 /\ SameEntries(after[c].content, Alone(c), kcs[c].ClusterName)

\* C9 witness: two calls with different cluster names succeeded one after the
\* other, the first adding a key the file did not hold; the file holds the
\* entries of both.
C9_Witness ==
    \E c \in Calls : \E d \in Calls \ {c} :
        /\ Succeeded(c) /\ Succeeded(d)
        /\ kcs[c].ClusterName # kcs[d].ClusterName
        /\ seen[c] = after[d]
        /\ kcs[d].ClusterName \in DOMAIN disk[KubeConfig].content.Clusters
        /\ kcs[c].ClusterName \in DOMAIN disk[KubeConfig].content.Clusters
        /\ kcs[d].ClusterName \notin DOMAIN Loaded(d).Clusters
        /\ disk[KubeConfig] = after[c]

\* The keys under which map `new` differs from map `old`.
KeysWritten(old, new) ==
    {k \in DOMAIN new : k \notin DOMAIN old \/ new[k] # old[k]}

\* C10: after a successful PopulateFromSettings the three mappings hold an
\* entry under the cluster name, no entry under another key was written, and
\* the context entry refers to the cluster and the credential by that name.
C10_SharedKey ==
    \A c \in Calls :
        Projected(c) =>
            LET name == kcs[c].ClusterName
            IN  /\ name \in DOMAIN kcfg[c].Clusters
                /\ name \in DOMAIN kcfg[c].AuthInfos
                /\ name \in DOMAIN kcfg[c].Contexts
                /\ KeysWritten(Loaded(c).Clusters, kcfg[c].Clusters) \subseteq {name}
                /\ KeysWritten(Loaded(c).AuthInfos, kcfg[c].AuthInfos) \subseteq {name}
                /\ KeysWritten(Loaded(c).Contexts, kcfg[c].Contexts) \subseteq {name}
                /\ kcfg[c].Contexts[name].Cluster = name
                /\ kcfg[c].Contexts[name].AuthInfo = name

\* C10 witness: PopulateFromSettings succeeded for cluster "dev" on a document
\* that held entries under "minikube".
C10_Witness ==
    \E c \in Calls :
        /\ Projected(c) /\ kcs[c].ClusterName = "dev"
        /\ "minikube" \in DOMAIN Loaded(c).Contexts
        /\ KeysWritten(Loaded(c).Contexts, kcfg[c].Contexts) = {"dev"}
        /\ kcfg[c].Contexts["dev"].Cluster = "dev"
        /\ kcfg[c].Contexts["dev"].AuthInfo = "dev"

\* The cluster and the credential entry under the cluster name of call c in
\* its in-memory document.
OwnCluster(c) == kcfg[c].Clusters[kcs[c].ClusterName]
OwnUser(c) == kcfg[c].AuthInfos[kcs[c].ClusterName]

\* C11: a call without EmbedCerts never returns the error of a certificate
\* read and reads no certificate file, whatever files are readable; after its
\* projection the CA path of the cluster entry and the certificate and key
\* paths of the credential entry are those of the Settings, and the inlined
\* bytes are empty.
C11_PathsVerbatim ==
    \A c \in Calls :
        ~kcs[c].EmbedCerts =>
            /\ err[c] \notin CertErrors
            /\ reads[c] = <<>>
            /\ HasLoaded(c) /\ pc[c] \in {"write", "done"} => Projected(c)
            /\ pc[c] = "populate" =>
                  \A readable \in SUBSET CertPaths(kcs[c]) :
                      LET r == PopulateFromSettings(kcs[c], kcfg[c], readable, now)
                      IN  r.err = "nil" /\ r.reads = <<>>
            /\ Projected(c) =>
                  /\ OwnCluster(c).CertificateAuthority = kcs[c].CertificateAuthority
                  /\ OwnCluster(c).CertificateAuthorityData = NoBytes
                  /\ OwnUser(c).ClientCertificate = kcs[c].ClientCertificate
                  /\ OwnUser(c).ClientKey = kcs[c].ClientKey
                  /\ OwnUser(c).ClientCertificateData = NoBytes
                  /\ OwnUser(c).ClientKeyData = NoBytes

\* C11 witness: a call without EmbedCerts projected onto a document whose
\* entries under its cluster name held inlined bytes and no paths.
C11_Witness ==
    \E c \in Calls :
        /\ ~kcs[c].EmbedCerts /\ Projected(c) /\ reads[c] = <<>>
        /\ kcs[c].ClusterName \in DOMAIN Loaded(c).AuthInfos
        /\ Loaded(c).AuthInfos[kcs[c].ClusterName].ClientKeyData # NoBytes
        /\ Loaded(c).AuthInfos[kcs[c].ClusterName].ClientKey = EmptyString
        /\ OwnUser(c).ClientKey = kcs[c].ClientKey
        /\ OwnUser(c).ClientKey # kcs[c].ClientCertificate
        /\ OwnUser(c).ClientKeyData = NoBytes

\* C12: a call with EmbedCerts whose three certificate files are readable
\* succeeds in its projection; after it the cluster entry holds the bytes of
\* the CA file and the credential entry the bytes of the certificate and of
\* the key file, and the three path fields are empty.
C12_BytesInlined ==
    \A c \in Calls :
        kcs[c].EmbedCerts =>
            /\ pc[c] = "populate" =>
                  PopulateFromSettings(kcs[c], kcfg[c], CertPaths(kcs[c]), now).err
                      = "nil"
            /\ Projected(c) =>
                  /\ reads[c] = <<kcs[c].CertificateAuthority,
                                  kcs[c].ClientCertificate, kcs[c].ClientKey>>
                  /\ kcfg[c] = PopulateFromSettings(kcs[c], Loaded(c),
                                   CertPaths(kcs[c]), stamp[c]).apiCfg
                  /\ OwnCluster(c).CertificateAuthorityData =
                          CertFiles[kcs[c].CertificateAuthority]
                  /\ OwnUser(c).ClientCertificateData =
                          CertFiles[kcs[c].ClientCertificate]
                  /\ OwnUser(c).ClientKeyData = CertFiles[kcs[c].ClientKey]
                  /\ OwnCluster(c).CertificateAuthority = EmptyString
                  /\ OwnUser(c).ClientCertificate = EmptyString
                  /\ OwnUser(c).ClientKey = EmptyString

\* C12 witness: a call with EmbedCerts projected onto a document that held
\* paths and no bytes under its cluster name; the entries hold the bytes of
\* its three files, which differ from each other.
C12_Witness ==
    \E c \in Calls :
        /\ kcs[c].EmbedCerts /\ Projected(c)
        /\ kcs[c].ClusterName \in DOMAIN Loaded(c).Clusters
        /\ Loaded(c).Clusters[kcs[c].ClusterName].CertificateAuthority # EmptyString
        /\ OwnCluster(c).CertificateAuthorityData = <<21>>
        /\ OwnUser(c).ClientCertificateData = <<22>>
        /\ OwnUser(c).ClientKeyData = <<23>>
        /\ OwnCluster(c).CertificateAuthority = EmptyString

\* C13: a call that found its target file missing went on from an empty
\* document, without a load error: its document is the empty one until the
\* projection and the projection of the empty one after it. A call that found
\* a file that does not parse has returned the load error without running the
\* projection or the persist step, and the file was, when it returned, the
\* file it found.
C13_LoadStep ==
    \A c \in Calls :
        /\ seen[c] = Missing =>
              /\ pc[c] \in {"populate", "write", "done"}
              /\ err[c] # "load"
              /\ pc[c] = "populate" => kcfg[c] = NewConfig
              /\ Projected(c) => kcfg[c] = Alone(c)
        /\ seen[c] = Unparsable =>
              /\ pc[c] = "done" /\ err[c] = "load"
              /\ kcfg[c] = NewConfig /\ stamp[c] = 0 /\ reads[c] = <<>>
              /\ ~wrote[c]
              /\ after[c] = Unparsable

\* C13 witness: a call found no file and projected onto the empty document;
\* another call found a file that does not parse and returned the load error,
\* and the file still does not parse.
C13_Witness ==
    \E c \in Calls : \E d \in Calls \ {c} :
        /\ seen[c] = Missing /\ Projected(c)
        /\ kcs[c].ClusterName \in DOMAIN kcfg[c].Contexts
        /\ seen[d] = Unparsable /\ pc[d] = "done" /\ err[d] = "load"
        /\ disk[filePath(kcs[d])] = Unparsable

\* C15: when the read of the CA file fails in a call with EmbedCerts, the
\* projection returns that error with the document it was given unchanged in
\* all four parts, and it has read the CA file only (and not the clock); this
\* is so whichever of the other two files are readable.
C15_CAFailureLeavesDocument ==
    \A c \in Calls :
        /\ pc[c] = "done" /\ err[c] = "reading CertificateAuthority" =>
              /\ kcs[c].EmbedCerts
              /\ kcfg[c] = Loaded(c)
              /\ reads[c] = <<kcs[c].CertificateAuthority>>
              /\ stamp[c] = 0
        /\ kcs[c].EmbedCerts /\ pc[c] = "populate" =>
              \A readable \in SUBSET {kcs[c].ClientCertificate, kcs[c].ClientKey} :
                  LET r == PopulateFromSettings(kcs[c], kcfg[c], readable, now)
                  IN  /\ r.err = "reading CertificateAuthority"
                      /\ r.apiCfg = kcfg[c]
                      /\ r.reads = <<kcs[c].CertificateAuthority>>

\* C15 witness: the read of the CA file failed in a call whose document held
\* entries under its cluster name; they are as they were.
C15_Witness ==
    \E c \in Calls :
        /\ pc[c] = "done" /\ err[c] = "reading CertificateAuthority"
        /\ kcs[c].ClusterName \in DOMAIN Loaded(c).Clusters
        /\ kcfg[c].Clusters[kcs[c].ClusterName].Server = "https://192.168.39.7:8443"
        /\ kcfg[c].Clusters[kcs[c].ClusterName].Server # kcs[c].ClusterServerAddress
        /\ kcfg[c] = Loaded(c)

\* C16: when, in a call with EmbedCerts, the CA file is read and the read of
\* the client certificate or, after it, of the client key fails, the
\* projection returns that error (of the certificate if it is unreadable, of
\* the key otherwise); the cluster mapping of the document is the one it was
\* given with the entry under the cluster name replaced by the new entry, and
\* the credential mapping, the context mapping and the current context are as
\* they were given.
C16_PartialProjection ==
    \A c \in Calls :
        /\ kcs[c].EmbedCerts /\ pc[c] = "populate" =>
              \A readable \in SUBSET {kcs[c].ClientCertificate, kcs[c].ClientKey} :
                  LET r == PopulateFromSettings(kcs[c], kcfg[c],
                               readable \cup {kcs[c].CertificateAuthority}, now)
                  IN  \/ r.err = "nil" /\ readable = {kcs[c].ClientCertificate, kcs[c].ClientKey}
                      \/ /\ r.err = IF kcs[c].ClientCertificate \in readable
                                     THEN "reading ClientKey"
                                     ELSE "reading ClientCertificate"
                         /\ r.apiCfg.AuthInfos = kcfg[c].AuthInfos
                         /\ r.apiCfg.Contexts = kcfg[c].Contexts
                         /\ r.apiCfg.CurrentContext = kcfg[c].CurrentContext
        /\ pc[c] = "done" /\ err[c] \in {"reading ClientCertificate", "reading ClientKey"} =>
            /\ kcs[c].EmbedCerts
            /\ kcfg[c].Clusters =
                   MapPut(Loaded(c).Clusters, kcs[c].ClusterName,
                          Alone(c).Clusters[kcs[c].ClusterName])
            /\ OwnCluster(c).CertificateAuthorityData =
                   CertFiles[kcs[c].CertificateAuthority]
            /\ kcfg[c].AuthInfos = Loaded(c).AuthInfos
            /\ kcfg[c].Contexts = Loaded(c).Contexts
            /\ kcfg[c].CurrentContext = Loaded(c).CurrentContext
            /\ reads[c] =
                   IF err[c] = "reading ClientCertificate"
                   THEN <<kcs[c].CertificateAuthority, kcs[c].ClientCertificate>>
                   ELSE <<kcs[c].CertificateAuthority, kcs[c].ClientCertificate,
                          kcs[c].ClientKey>>

\* C16 witness: the read of the client key failed in a call whose document
\* held entries under its cluster name; the cluster entry is the new one, the
\* credential entry the old one.
C16_Witness ==
    \E c \in Calls :
        /\ pc[c] = "done" /\ err[c] = "reading ClientKey"
        /\ kcs[c].ClusterName \in DOMAIN Loaded(c).AuthInfos
        /\ OwnCluster(c) # Loaded(c).Clusters[kcs[c].ClusterName]
        /\ OwnCluster(c).Server = kcs[c].ClusterServerAddress
        /\ OwnUser(c) = Loaded(c).AuthInfos[kcs[c].ClusterName]
        /\ OwnUser(c).ClientKeyData = <<93>>

\* Call c holds the lock it asked for.
HoldsLock(c) == <<spec[c].Name, c>> \in held

\* PopulateFromSettings has been called in call c: it read a certificate file
\* or the clock.
ProjectionRan(c) == reads[c] # <<>> \/ stamp[c] # 0

\* C17: a call is at or past its load only with the lock acquired (held, or
\* released at its return); the projection ran only after a successful load;
\* the persist step ran only after a successful projection of the loaded
\* document; a call returned nil only after acquiring, loading, projecting and
\* persisting without error; and a call whose acquisition failed returned
\* the error without loading, projecting or writing.
C17_StepOrder ==
    \A c \in Calls :
        /\ pc[c] \in {"load", "populate", "write"} => HoldsLock(c)
        /\ seen[c] # NoFile => HoldsLock(c) \/ (pc[c] = "done" /\ released[c] = 1)
        /\ pc[c] \in {"populate", "write"} => HasLoaded(c)
        /\ ProjectionRan(c) => HasLoaded(c)
        /\ pc[c] = "write" \/ wrote[c] =>
              /\ HasLoaded(c) /\ stamp[c] # 0 /\ err[c] \notin CertErrors
              /\ kcfg[c] = PopulateFromSettings(kcs[c], Loaded(c),
                               CertPaths(kcs[c]), stamp[c]).apiCfg
        /\ Succeeded(c) =>
              /\ released[c] = 1 /\ HasLoaded(c) /\ ProjectionRan(c) /\ wrote[c]
              /\ after[c] = Encode(kcfg[c])
        /\ pc[c] = "done" /\ err[c] = "unable to acquire lock" =>
              /\ seen[c] = NoFile /\ ~ProjectionRan(c) /\ ~wrote[c]
              /\ kcfg[c] = NewConfig /\ released[c] = 0
              /\ \A h \in held : h[2] # c

\* C17 witness: a call gave up acquiring the lock while another call held it
\* and returned without loading; the other call then went through all four
\* steps and returned nil.
C17_Witness ==
    \E c \in Calls : \E d \in Calls \ {c} :
        /\ pc[c] = "done" /\ err[c] = "unable to acquire lock"
        /\ seen[c] = NoFile /\ after[c] = seen[d]
        /\ Succeeded(d) /\ wrote[d] /\ disk[filePath(kcs[d])] = Encode(kcfg[d])

\* Document doc is referentially intact: its current context is empty or one
\* of its context entries, and every context entry names a cluster entry and
\* a credential entry of the document.
Intact(doc) ==
    /\ doc.CurrentContext = EmptyString \/ doc.CurrentContext \in DOMAIN doc.Contexts
    /\ \A x \in DOMAIN doc.Contexts :
          /\ doc.Contexts[x].Cluster \in DOMAIN doc.Clusters
          /\ doc.Contexts[x].AuthInfo \in DOMAIN doc.AuthInfos

\* C19: in the runs that start from a missing file or from a document that is
\* referentially intact, a kubeconfig file that holds a document holds, at
\* every moment of every interleaving of successful and failed calls, one
\* that is referentially intact.
C19_ReferentialIntegrity ==
    \A p \in Paths :
        disk0[p] \in ConsistentFiles /\ disk[p].kind = "kubeconfig" =>
            Intact(disk[p].content)

\* C19 witness: after a call that failed with a partial in-memory document
\* and a call with KeepContext that succeeded, the file holds the context
\* entries of two clusters and a current context the succeeding call did not
\* set.
C19_Witness ==
    \E c \in Calls : \E d \in Calls \ {c} :
        /\ Succeeded(c) /\ kcs[c].KeepContext
        /\ pc[d] = "done" /\ err[d] \in CertErrors /\ kcfg[d] # Loaded(d)
        /\ disk[KubeConfig] = after[c]
        /\ Cardinality(DOMAIN disk[KubeConfig].content.Contexts) = 2
        /\ disk[KubeConfig].content.CurrentContext # EmptyString
        /\ disk[KubeConfig].content.CurrentContext # kcs[c].ClusterName

\* C14: the lock names of two calls are equal exactly when their target paths
\* are; a call that waits for its lock can acquire it exactly when no call on
\* the same path holds it, whatever locks calls on other paths hold.
C14_PerPathLock ==
    \A c \in Calls :
        /\ \A d \in Calls :
              spec[c].Name = spec[d].Name <=> filePath(kcs[c]) = filePath(kcs[d])
        /\ pc[c] = "acquire" =>
              (ENABLED Acquire(c) <=>
                  \A d \in Calls \ {c} :
                      HoldsLock(d) => filePath(kcs[d]) # filePath(kcs[c]))

\* C14 witness: a call on one path projected and still holds its lock, before
\* its persist step; a call on the other path projected after it, persisted
\* and returned nil; a third call, if any, waits.
C14_Witness ==
    \E c \in Calls : \E d \in Calls \ {c} :
        /\ filePath(kcs[c]) # filePath(kcs[d])
        /\ pc[c] = "write" /\ HoldsLock(c)
        /\ Succeeded(d) /\ stamp[d] > stamp[c]
        /\ disk[filePath(kcs[d])] = Encode(kcfg[d])
        /\ disk[filePath(kcs[c])] = seen[c]
        /\ \A e \in Calls \ {c, d} : pc[e] = "acquire"

\* C18: the paths filePath() returned to a call, for the lock specification,
\* for the load and for the persist step, are one path.
C18_OnePathPerCall ==
    \A c \in Calls :
        \A i, j \in 1..Len(pathsRead[c]) : pathsRead[c][i] = pathsRead[c][j]

\* Every call has returned.
AllReturned == \A c \in Calls : pc[c] = "done"

\* C20: under fairness, from some moment on every call has returned and no
\* lock is held: no call waits for ever, and no call, returning nil or an
\* error, keeps the lock.
C20_Progress == <>[](AllReturned /\ held = {})

\* C20 witness: a call that held the lock returned the error of a certificate
\* read; another call projected after that, persisted and returned nil; every
\* call has returned and no lock is held.
C20_Witness ==
    \E c \in Calls : \E d \in Calls \ {c} :
        /\ pc[c] = "done" /\ err[c] \in {"reading ClientCertificate", "reading ClientKey"}
        /\ Succeeded(d) /\ stamp[d] > stamp[c] /\ stamp[c] > 0
        /\ AllReturned /\ held = {}

====
